---- MODULE Spec2Model ----
(***************************************************************************)
(* The snippet data-access layer (lib/firebase/snippets): getSnippets,     *)
(* getSnippet, addSnippet, updateSnippet, deleteSnippet over the Firestore *)
(* "snippets" collection, with the client clock that Timestamp.now() reads *)
(* and the live listeners that onSnapshot registers.                       *)
(*                                                                         *)
(* A document is a function from field names to values (a JS object), so   *)
(* the object spreads of the code are function merges.  Document ids are   *)
(* opaque; they are numbered here.  Firestore's own behaviour (where,      *)
(* orderBy, limit, addDoc, updateDoc, deleteDoc, getDoc, onSnapshot) is    *)
(* modelled at the call sites of the code.                                 *)
(*                                                                         *)
(* Further specifications follow the components around that layer, each    *)
(* with the rest of the state at rest: SpecScan (the facet scans),         *)
(* SpecSort (the client-side sort of LanguageSnippets), SpecExplain (the   *)
(* explain-code route), SpecForms (SnippetEditForm), SpecLive (the          *)
(* listener of getSnippets as events raised and dispatched), SpecSite (the *)
(* add form, the detail page and the edit form together), SpecList (the    *)
(* list views and their subscriptions) and SpecSession (useUserSession).   *)
(***************************************************************************)
EXTENDS Integers, Sequences, FiniteSets, TLC

VARIABLES
    store,      \* the "snippets" collection: document id -> document data
    clock,      \* the client clock read by Timestamp.now()
    subs,       \* the onSnapshot listeners registered by getSnippets
    ret,        \* the outcome of the last completed repository call
    born,       \* history: id -> the draft addSnippet was called with
    deleted,    \* history: ids for which deleteSnippet has completed
    user,       \* the signed-in user that useAuthState(auth) yields
    form,       \* the state of the mounted SnippetEditForm
    inbox,      \* snapshot events raised for a listener and not yet dispatched
    views,      \* history: the successive results of a listener's query
    log,        \* history: the events the callback of getSnippets was called with
    faults,     \* history: the Firestore failures no caller was told of
    view,       \* the state of the LanguageSnippets component
    http,       \* the explain-code route: the request in progress and its response
    adding,     \* the state of the mounted AddSnippetPage
    detail,     \* the state of the mounted SnippetDetail
    listing,    \* the state of the mounted list view
    listeners,  \* the onSnapshot listeners the list views have registered
    session     \* useUserSession: the provider's user, the cookie, the callbacks

vars == <<store, clock, subs, ret, born, deleted,
          user, form, inbox, views, log, faults, view, http, adding, detail,
          listing, listeners, session>>

\* the variables of the components, by component
formVars == <<user, form>>
liveVars == <<inbox, views, log, faults>>
pageVars == <<view, http>>
listVars == <<listing, listeners>>
siteVars == <<adding, detail, listVars, session>>

----------------------------------------------------------------------------
(* Bounds of the model *)

MaxCreates == 1     \* addSnippet calls in one behaviour
MaxTicks == 1       \* clock advances in one behaviour
MaxSubs == 1        \* listener slots
MaxScanned == 4     \* documents in a collection the facet scans read
MaxListed == 3      \* snippets a language page is given to sort
MaxFetches == 2     \* getDoc calls of an edit form in flight at once
MaxListeners == 2   \* listeners of the list views registered at once
MaxRequests == 2    \* explain requests for one snippet in flight at once
MaxCallbacks == 2   \* invocations of the id-token listener in progress at once

(* limit(50) of the list query *)
Limit == 50

----------------------------------------------------------------------------
(* Values *)

Absent == "<undefined>"     \* a key the object does not carry
Null == "<null>"            \* JS null
NotFoundMsg == "Snippet not found"

\* JS truthiness of the string-or-missing values the code tests
Truthy(v) == v \notin {Absent, Null, ""}

Has(d, f) == f \in DOMAIN d

\* { ...a, ...b }
Spread(a, b) == [f \in DOMAIN a \cup DOMAIN b |-> IF f \in DOMAIN b THEN b[f] ELSE a[f]]

\* { id: doc.id, ...doc.data() }
WithId(id, data) == Spread([id |-> id], data)

\* (mutant) only the first element of the array is compared
ArrayContainsFirst(arr, v) == Len(arr) > 0 /\ arr[1] = v

\* Firestore "array-contains"
ArrayContains(arr, v) == \E k \in 1..Len(arr) : arr[k] = v

Min(a, b) == IF a < b THEN a ELSE b

----------------------------------------------------------------------------
(* The documents already in the collection when the program starts: either *)
(* none, or Limit snippets that addSnippet created at times 1, 2, ...      *)

NumSeeds == Limit
SeedIds == 1..NumSeeds
Clock0 == NumSeeds
MaxClock == Clock0 + MaxTicks

SeedDoc(k) ==
    [title |-> "S", language |-> "JavaScript", framework |-> "React",
     tags |-> <<"state">>, createdAt |-> k, updatedAt |-> k,
     rating |-> 0, numRatings |-> 0]

SeededStore == [k \in SeedIds |-> SeedDoc(k)]
EmptyStore == [k \in {} |-> SeedDoc(k)]

\* ids that addDoc hands out, and an id that no document ever has
FreshIds == (NumSeeds + 1)..(NumSeeds + MaxCreates)
GhostId == 0
OldestSeed == 1

----------------------------------------------------------------------------
(* Inputs *)

FutureStamp == MaxClock + 1

Drafts ==
    { [title |-> "A", language |-> "JavaScript", framework |-> "React",
       tags |-> <<"hooks", "state">>],
      [title |-> "B", language |-> "Python", framework |-> Null,
       tags |-> <<>>, rating |-> 5, numRatings |-> 2,
       createdAt |-> 0, updatedAt |-> FutureStamp] }

Partials ==
    { [title |-> "X"],
      [tags |-> <<"hooks">>, createdAt |-> FutureStamp, updatedAt |-> 0] }

NoFilter == [language |-> Absent, framework |-> Absent, tag |-> Absent]

FilterSet ==
    { NoFilter,
      [language |-> "", framework |-> Absent, tag |-> "state"],
      [language |-> Absent, framework |-> Absent, tag |-> "hooks"],
      [language |-> "JavaScript", framework |-> "React", tag |-> "state"] }

----------------------------------------------------------------------------
(* Firestore *)

\* query(q, where(field, op, value))
Where(q, field, op, value) ==
    [q EXCEPT !.conds = Append(@, [field |-> field, op |-> op, value |-> value])]

\* query(q, orderBy(field, dir), limit(n))
OrderByLimit(q, field, dir, n) ==
    [q EXCEPT !.order = [field |-> field, dir |-> dir], !.limit = n]

\* collection(db, "snippets")
Collection == [conds |-> <<>>, order |-> [field |-> Absent, dir |-> Absent], limit |-> 0]

CondHolds(c, d) ==
    /\ Has(d, c.field)
    /\ IF c.op = "==" THEN d[c.field] = c.value
       ELSE ArrayContains(d[c.field], c.value)

\* the documents a query selects: every where clause holds and the
\* orderBy field exists
Selected(q, st) ==
    { i \in DOMAIN st :
        /\ \A k \in 1..Len(q.conds) : CondHolds(q.conds[k], st[i])
        /\ Has(st[i], q.order.field) }

\* i is delivered before j: by the orderBy field in its direction, ties by
\* document id in the same direction
Before(q, st, i, j) ==
    LET a == st[i][q.order.field]
        b == st[j][q.order.field]
    IN  IF q.order.dir = "desc"
        THEN a > b \/ (a = b /\ i > j)
        ELSE a < b \/ (a = b /\ i < j)

\* the collection's document ids, as a sequence
EveryId == [k \in 1..(NumSeeds + MaxCreates + 1) |-> NumSeeds + MaxCreates + 1 - k]

\* snapshot.docs of a query's snapshot, each as the callback maps it
RunQuery(q, st) ==
    LET M == Selected(q, st)
        ids == SortSeq(SelectSeq(EveryId, LAMBDA i : i \in M),
                       LAMBDA i, j : Before(q, st, i, j))
    IN  [k \in 1..Min(Len(ids), q.limit) |-> WithId(ids[k], st[ids[k]])]

AddDoc(st, id, data) ==
    [i \in DOMAIN st \cup {id} |-> IF i = id THEN data ELSE st[i]]

\* (mutant) a write that creates the document when it is missing
UpdateDocUpsert(st, id, fields) ==
    [ok |-> TRUE,
     store |-> [i \in DOMAIN st \cup {id} |->
                   IF i # id THEN st[i]
                   ELSE IF id \in DOMAIN st THEN Spread(st[id], fields) ELSE fields]]

\* updateDoc: rejects with not-found when the document does not exist,
\* else merges the fields into it
UpdateDoc(st, id, fields) ==
    IF id \in DOMAIN st
    THEN [ok |-> TRUE, store |-> [st EXCEPT ![id] = Spread(@, fields)]]
    ELSE [ok |-> FALSE, store |-> st]

\* (mutant) a delete that rejects when there is nothing to delete
DeleteDocStrict(st, id) ==
    IF id \in DOMAIN st
    THEN [ok |-> TRUE, store |-> [i \in DOMAIN st \ {id} |-> st[i]]]
    ELSE [ok |-> FALSE, store |-> st]

\* (mutant) a soft delete: the document is flagged, not removed
DeleteDocSoft(st, id) ==
    [ok |-> TRUE,
     store |-> IF id \in DOMAIN st
               THEN [st EXCEPT ![id] = Spread(@, [isDeleted |-> TRUE])]
               ELSE st]

\* deleteDoc: succeeds whether or not the document exists
DeleteDoc(st, id) ==
    [ok |-> TRUE, store |-> [i \in DOMAIN st \ {id} |-> st[i]]]

----------------------------------------------------------------------------
(* The repository *)

\* (mutant) the tag filter is never applied
BuildQueryNoTag(filters) ==
    LET q0 == Collection
        q1 == IF Truthy(filters.language)
              THEN Where(q0, "language", "==", filters.language) ELSE q0
        q2 == IF Truthy(filters.framework)
              THEN Where(q1, "framework", "==", filters.framework) ELSE q1
    IN  OrderByLimit(q2, "createdAt", "desc", Limit)

\* (mutant) the list is ordered oldest first
BuildQueryOldestFirst(filters) ==
    LET q0 == Collection
        q1 == IF Truthy(filters.language)
              THEN Where(q0, "language", "==", filters.language) ELSE q0
        q2 == IF Truthy(filters.framework)
              THEN Where(q1, "framework", "==", filters.framework) ELSE q1
        q3 == IF Truthy(filters.tag)
              THEN Where(q2, "tags", "array-contains", filters.tag) ELSE q2
    IN  OrderByLimit(q3, "createdAt", "asc", Limit)

\* the query getSnippets builds from its filters
BuildQuery(filters) ==
    LET q0 == Collection
        q1 == IF Truthy(filters.language)
              THEN Where(q0, "language", "==", filters.language) ELSE q0
        q2 == IF Truthy(filters.framework)
              THEN Where(q1, "framework", "==", filters.framework) ELSE q1
        q3 == IF Truthy(filters.tag)
              THEN Where(q2, "tags", "array-contains", filters.tag) ELSE q2
    IN  OrderByLimit(q3, "createdAt", "desc", Limit)

\* (mutant) the draft is spread last, so its own stamps and counters win
NewSnippetDraftWins(snippetData, t1, t2) ==
    Spread([createdAt |-> t1, updatedAt |-> t2, rating |-> 0, numRatings |-> 0],
           snippetData)

\* the object addSnippet persists, from two readings of the clock
NewSnippet(snippetData, t1, t2) ==
    Spread(snippetData,
           [createdAt |-> t1, updatedAt |-> t2, rating |-> 0, numRatings |-> 0])

\* the fields updateSnippet hands to updateDoc
UpdateFields(snippetData, now) ==
    Spread(snippetData, [updatedAt |-> now])

\* what getSnippet resolves or rejects with
GetResult(st, id) ==
    IF id \in DOMAIN st
    THEN [op |-> "get", id |-> id, ok |-> TRUE, value |-> WithId(id, st[id])]
    ELSE [op |-> "get", id |-> id, ok |-> FALSE, error |-> NotFoundMsg]

----------------------------------------------------------------------------
(* State machine *)

SubIds == 1..MaxSubs

Idle == [active |-> FALSE, filters |-> NoFilter, q |-> Collection,
         delivered |-> FALSE, last |-> <<>>]

\* the components at rest: nobody signed in, no form mounted, nothing in flight
NoForm == [mounted |-> FALSE]
NoView == [mounted |-> FALSE]
NoRequest == [pc |-> "idle"]

FormsIdle == user = Null /\ form = NoForm

NoSession == [mounted |-> FALSE]

SiteIdle ==
    /\ adding = NoForm /\ detail = NoView
    /\ listing = NoView /\ listeners = <<>>
    /\ session = NoSession

LiveIdle ==
    /\ inbox = [s \in SubIds |-> <<>>]
    /\ views = [s \in SubIds |-> <<>>]
    /\ log = [s \in SubIds |-> <<>>]
    /\ faults = {}

PagesIdle == view = NoView /\ http = NoRequest

Init ==
    /\ store \in {EmptyStore, SeededStore}
    /\ clock = Clock0
    /\ subs = [s \in SubIds |-> Idle]
    /\ ret = [op |-> "none"]
    /\ born = [i \in {} |-> NoFilter]
    /\ deleted = {}
    /\ FormsIdle /\ LiveIdle /\ PagesIdle /\ SiteIdle

\* the client clock advances
Tick ==
    /\ clock < MaxClock
    /\ clock' = clock + 1
    /\ UNCHANGED <<store, subs, ret, born, deleted>>

\* getSnippets(filters, callback): build the query, register the listener
getSnippets(s, filters) ==
    /\ ~subs[s].active
    /\ subs' = [subs EXCEPT ![s] =
                   [active |-> TRUE, filters |-> filters, q |-> BuildQuery(filters),
                    delivered |-> FALSE, last |-> <<>>]]
    /\ UNCHANGED <<store, clock, ret, born, deleted>>

\* the listener fires: the first snapshot, or a changed one, reaches the callback
OnSnapshot(s) ==
    /\ subs[s].active
    /\ LET snippets == RunQuery(subs[s].q, store)
       IN  /\ ~subs[s].delivered \/ snippets # subs[s].last
           /\ subs' = [subs EXCEPT ![s].delivered = TRUE, ![s].last = snippets]
    /\ UNCHANGED <<store, clock, ret, born, deleted>>

\* the function getSnippets returned is called: the listener is removed
Unsubscribe(s) ==
    /\ subs[s].active
    /\ subs' = [subs EXCEPT ![s] = Idle]
    /\ UNCHANGED <<store, clock, ret, born, deleted>>

getSnippet(id) ==
    /\ ret' = GetResult(store, id)
    /\ UNCHANGED <<store, clock, subs, born, deleted>>

\* addSnippet: Timestamp.now() is read twice; the clock may advance in between
addSnippet(snippetData) ==
    \E id \in FreshIds \ DOMAIN born :
    \E t2 \in {clock, Min(clock + 1, MaxClock)} :
        /\ store' = AddDoc(store, id, NewSnippet(snippetData, clock, t2))
        /\ clock' = t2
        /\ ret' = [op |-> "create", id |-> id, ok |-> TRUE]
        /\ born' = AddDoc(born, id, snippetData)
        /\ UNCHANGED <<subs, deleted>>

updateSnippet(id, snippetData) ==
    LET r == UpdateDoc(store, id, UpdateFields(snippetData, clock))
    IN  /\ store' = r.store
        /\ ret' = IF r.ok THEN [op |-> "update", id |-> id, ok |-> TRUE]
                  ELSE [op |-> "update", id |-> id, ok |-> FALSE, error |-> "not-found"]
        /\ UNCHANGED <<clock, subs, born, deleted>>

deleteSnippet(id) ==
    LET r == DeleteDoc(store, id)
    IN  /\ store' = r.store
        /\ ret' = [op |-> "delete", id |-> id, ok |-> r.ok]
        /\ deleted' = IF r.ok THEN deleted \cup {id} ELSE deleted
        /\ UNCHANGED <<clock, subs, born>>

\* the ids a caller can name: of the documents it has seen, or made up
TargetIds == {GhostId, OldestSeed} \cup DOMAIN born

\* the data-access layer alone: the components stay at rest
AtRest == UNCHANGED <<formVars, liveVars, pageVars, siteVars>>

Next ==
    \/ Tick /\ AtRest
    \/ \E s \in SubIds, f \in FilterSet : getSnippets(s, f) /\ AtRest
    \/ \E s \in SubIds : OnSnapshot(s) /\ AtRest
    \/ \E s \in SubIds : Unsubscribe(s) /\ AtRest
    \/ \E id \in TargetIds : getSnippet(id) /\ AtRest
    \/ \E d \in Drafts : addSnippet(d) /\ AtRest
    \/ \E id \in TargetIds, p \in Partials : updateSnippet(id, p) /\ AtRest
    \/ \E id \in TargetIds : deleteSnippet(id) /\ AtRest

Spec == Init /\ [][Next]_vars

----------------------------------------------------------------------------
(* Properties *)

\* the step in which listener s hands a result set to its callback
Delivered(s) ==
    /\ subs[s].active
    /\ subs'[s].active
    /\ subs'[s] # subs[s]

\* the ids of the documents of a result set
IdsOf(snippets) == {snippets[k].id : k \in 1..Len(snippets)}

\* a document meets every criterion the filter descriptor carries
Satisfies(f, d) ==
    /\ Truthy(f.language) => Has(d, "language") /\ d.language = f.language
    /\ Truthy(f.framework) => Has(d, "framework") /\ d.framework = f.framework
    /\ Truthy(f.tag) =>
          Has(d, "tags") /\ \E k \in 1..Len(d.tags) : d.tags[k] = f.tag

UniqueCreatedAt(st) ==
    \A i, j \in DOMAIN st : i # j => st[i].createdAt # st[j].createdAt

\* C2: a result set delivered for a descriptor with no criteria holds at
\* most Limit snippets, newest first by createdAt (strictly so when the
\* timestamps are unique), is made of stored snippets as they are stored,
\* holds Limit of them when more than Limit are stored and all of them
\* otherwise, and every snippet left out is no newer than any delivered.
C2_NewestFifty ==
    [][\A s \in SubIds :
          Delivered(s) /\ subs[s].filters = NoFilter =>
             LET got == subs'[s].last
                 R == IdsOf(got)
             IN  /\ Len(got) <= Limit
                 /\ Len(got) = Min(Limit, Cardinality(DOMAIN store))
                 /\ Cardinality(R) = Len(got)
                 /\ R \subseteq DOMAIN store
                 /\ \A k \in 1..Len(got) : got[k] = WithId(got[k].id, store[got[k].id])
                 /\ \A k \in 1..(Len(got) - 1) :
                       got[k].createdAt >= got[k + 1].createdAt
                 /\ UniqueCreatedAt(store) =>
                       \A k \in 1..(Len(got) - 1) :
                          got[k].createdAt > got[k + 1].createdAt
                 /\ \A i \in R, j \in DOMAIN store \ R :
                       store[j].createdAt <= store[i].createdAt]_vars

\* C2 witness: Limit snippets were delivered for the empty descriptor while
\* the collection holds more, with unique timestamps, and the newest stored
\* snippet is the first delivered
C2_Witness ==
    \E s \in SubIds :
        /\ subs[s].active /\ subs[s].delivered
        /\ subs[s].filters = NoFilter
        /\ Len(subs[s].last) = Limit
        /\ Cardinality(DOMAIN store) > Limit
        /\ UniqueCreatedAt(store)
        /\ subs[s].last = RunQuery(subs[s].q, store)
        /\ subs[s].last[1].id \in DOMAIN born

\* v is an element of the sequence
InSeq(seq, v) == \E k \in 1..Len(seq) : seq[k] = v

\* the tag is the only criterion the descriptor carries
OnlyTag(f) == Truthy(f.tag) /\ ~Truthy(f.language) /\ ~Truthy(f.framework)

\* the stored snippets, other than i, that carry tag t and are at least as new as i
AtLeastAsNew(t, i) ==
    {j \in DOMAIN store \ {i} :
        InSeq(store[j].tags, t) /\ store[j].createdAt >= store[i].createdAt}

C4_UpdateFrame ==
    [][\A id \in TargetIds : \A p \in Partials :
          updateSnippet(id, p) /\ id \in DOMAIN store =>
             /\ DOMAIN store' = DOMAIN store
             /\ \A j \in DOMAIN store \ {id} : store'[j] = store[j]
             /\ store'[id].createdAt = store[id].createdAt
             /\ \A f \in DOMAIN store[id] \ (DOMAIN p \cup {"updatedAt"}) :
                   f \in DOMAIN store'[id] /\ store'[id][f] = store[id][f]]_vars

\* C5 as stated: after updateSnippet(id, {title: "X"}) on a stored snippet,
\* getSnippet(id) yields title "X" and an updatedAt strictly greater than
\* the one the snippet had before, for every update of a sequence.
C5_UpdatedAtIncreases ==
    [][\A id \in TargetIds :
          updateSnippet(id, [title |-> "X"]) /\ id \in DOMAIN store =>
             LET got == GetResult(store', id)
             IN  /\ got.ok
                 /\ got.value.title = "X"
                 /\ got.value.updatedAt > store[id].updatedAt]_vars

\* C6: once deleteSnippet(id) has completed, getSnippet(id) rejects with
\* "Snippet not found", whatever other calls were made since.
C6_DeletedStaysGone ==
    \A id \in deleted :
        LET got == GetResult(store, id)
        IN  ~got.ok /\ got.error = NotFoundMsg

\* C6 witness: getSnippet has just rejected for a snippet deleted earlier,
\* with another snippet created and deleted as well
C6_Witness ==
    /\ ret.op = "get" /\ ~ret.ok
    /\ ret.id = OldestSeed
    /\ OldestSeed \in deleted
    /\ \E i \in DOMAIN born \cap deleted : TRUE

\* C7: deleteSnippet of an id that has no document completes without
\* failing and leaves the collection as it was.
C7_DeleteIdempotent ==
    [][\A id \in TargetIds :
          deleteSnippet(id) /\ id \notin DOMAIN store =>
             /\ ret'.op = "delete" /\ ret'.ok
             /\ store' = store]_vars

\* C7 witness: a delete of an id that never had a document has completed,
\* after a snippet that was created was deleted
C7_Witness ==
    /\ ret.op = "delete" /\ ret.ok
    /\ ret.id = GhostId
    /\ \E i \in DOMAIN born : i \in deleted /\ i \notin DOMAIN store

\* C8: updateSnippet of an id that has no document rejects with not-found,
\* leaves the collection as it was, and getSnippet(id) still rejects with
\* "Snippet not found".
C8_UpdateMissingFails ==
    [][\A id \in TargetIds : \A p \in Partials :
          updateSnippet(id, p) /\ id \notin DOMAIN store =>
             /\ ret'.op = "update" /\ ~ret'.ok /\ ret'.error = "not-found"
             /\ store' = store
             /\ ~GetResult(store', id).ok
             /\ GetResult(store', id).error = NotFoundMsg]_vars

\* C8 witness: an update of a snippet that was created and then deleted
\* has been rejected
C8_Witness ==
    /\ ret.op = "update" /\ ~ret.ok
    /\ ret.id \in DOMAIN born
    /\ ret.id \in deleted

\* C9: addSnippet persists exactly one new document and changes no other;
\* its rating and numRatings are 0 and its createdAt and updatedAt are
\* readings of the clock taken during the call, whatever the draft carries
\* for those four fields; its other fields are the draft's; the id
\* returned is the new document's and is the id of no document stored
\* before.
C9_CreateStamps ==
    [][\A d \in Drafts :
          addSnippet(d) =>
             LET new == DOMAIN store' \ DOMAIN store
             IN  /\ Cardinality(new) = 1
                 /\ \A j \in DOMAIN store : j \in DOMAIN store' /\ store'[j] = store[j]
                 /\ ret'.op = "create" /\ ret'.ok
                 /\ ret'.id \in new
                 /\ ret'.id \notin DOMAIN store
                 /\ LET doc == store'[ret'.id]
                    IN  /\ doc.rating = 0
                        /\ doc.numRatings = 0
                        /\ clock <= doc.createdAt /\ doc.createdAt <= clock'
                        /\ clock <= doc.updatedAt /\ doc.updatedAt <= clock'
                        /\ \A f \in DOMAIN d \ {"rating", "numRatings", "createdAt", "updatedAt"} :
                              doc[f] = d[f]]_vars

\* C9 witness: a snippet has just been created from a draft that carried
\* its own rating, numRatings, createdAt and updatedAt, into a collection
\* that already held documents
C9_Witness ==
    /\ ret.op = "create" /\ ret.ok
    /\ ret.id \in DOMAIN store
    /\ {"rating", "numRatings", "createdAt", "updatedAt"} \subseteq DOMAIN born[ret.id]
    /\ born[ret.id].rating # 0
    /\ store[ret.id].rating = 0
    /\ Cardinality(DOMAIN store) > 1

\* C10 as stated: every stored snippet has createdAt <= updatedAt.
C10_CreatedBeforeUpdated ==
    \A i \in DOMAIN store : store[i].createdAt <= store[i].updatedAt

----------------------------------------------------------------------------
(* The facet scans: getLanguages, getFrameworks, getAllTags *)

\* the UTF-16 code units of the strings that occur in the model
Utf16 ==
    ("" :> <<>>) @@
    ("Go" :> <<71, 111>>) @@
    ("Rust" :> <<82, 117, 115, 116>>) @@
    ("go" :> <<103, 111>>) @@
    ("React" :> <<82, 101, 97, 99, 116>>) @@
    ("react" :> <<114, 101, 97, 99, 116>>) @@
    ("hooks" :> <<104, 111, 111, 107, 115>>) @@
    ("Apple" :> <<65, 112, 112, 108, 101>>) @@
    ("apple" :> <<97, 112, 112, 108, 101>>) @@
    ("banana" :> <<98, 97, 110, 97, 110, 97>>) @@
    ("Banana" :> <<66, 97, 110, 97, 110, 97>>) @@
    ("cherry" :> <<99, 104, 101, 114, 114, 121>>)

\* a sorts before b by code units: they differ first at k, where a has ended or is smaller
CodeUnitLess(a, b) ==
    \E k \in 1..Len(b) :
        /\ \A j \in 1..(k - 1) : j <= Len(a) /\ a[j] = b[j]
        /\ k > Len(a) \/ a[k] < b[k]

\* Array.prototype.sort() with no comparator, on strings
ArraySortUnsorted(arr) == arr
ArraySort(arr) == SortSeq(arr, LAMBDA x, y : CodeUnitLess(Utf16[x], Utf16[y]))

\* Set.prototype.add on a Set kept in insertion order
SetAdd(set, v) == IF \E k \in 1..Len(set) : set[k] = v THEN set ELSE Append(set, v)

\* querySnapshot.docs of getDocs(collection(db, "snippets")): by document id
DocIds(st) == SortSeq(SelectSeq(EveryId, LAMBDA i : i \in DOMAIN st), LAMBDA i, j : i < j)

\* forEach over the documents: a truthy value of the field is added to the Set
RECURSIVE CollectField(_, _, _, _)
CollectField(st, ids, f, set) ==
    IF ids = <<>> THEN set
    ELSE LET data == st[Head(ids)]
         IN  CollectField(st, Tail(ids), f,
                 IF Has(data, f) /\ Truthy(data[f]) THEN SetAdd(set, data[f]) ELSE set)

\* data.tags.forEach(tag => tags.add(tag))
RECURSIVE AddEach(_, _)
AddEach(set, arr) ==
    IF arr = <<>> THEN set ELSE AddEach(SetAdd(set, Head(arr)), Tail(arr))

\* data.tags && Array.isArray(data.tags): a tags field, where a document carries
\* one, holds an array
HasTagsArray(data) == Has(data, "tags")

RECURSIVE CollectTags(_, _, _)
CollectTags(st, ids, set) ==
    IF ids = <<>> THEN set
    ELSE LET data == st[Head(ids)]
         IN  CollectTags(st, Tail(ids),
                 IF HasTagsArray(data)
                 THEN AddEach(set, data.tags) ELSE set)

Languages(st) == ArraySort(CollectField(st, DocIds(st), "language", <<>>))
Frameworks(st) == ArraySort(CollectField(st, DocIds(st), "framework", <<>>))
AllTags(st) == ArraySort(CollectTags(st, DocIds(st), <<>>))

\* the documents of the scanned collections, by the fields the scans read
ScanDocs ==
    { [language |-> "Go", framework |-> "React", tags |-> <<"go", "hooks">>],
      [language |-> "go", framework |-> Null, tags |-> <<>>],
      [language |-> "Rust", framework |-> "react", tags |-> <<"hooks", "Go", "hooks">>],
      [language |-> "Go", framework |-> "", tags |-> <<"Rust">>],
      [language |-> ""] }

ScanIds == 1..MaxScanned

ScanStores == UNION { [I -> ScanDocs] : I \in SUBSET ScanIds }

InitScan ==
    /\ store \in ScanStores
    /\ clock = Clock0
    /\ subs = [s \in SubIds |-> Idle]
    /\ ret = [op |-> "none"]
    /\ born = [i \in {} |-> NoFilter]
    /\ deleted = {}
    /\ FormsIdle /\ LiveIdle /\ PagesIdle /\ SiteIdle

getLanguages ==
    /\ ret' = [op |-> "getLanguages", ok |-> TRUE, value |-> Languages(store)]
    /\ UNCHANGED <<store, clock, subs, born, deleted>>

getFrameworks ==
    /\ ret' = [op |-> "getFrameworks", ok |-> TRUE, value |-> Frameworks(store)]
    /\ UNCHANGED <<store, clock, subs, born, deleted>>

getAllTags ==
    /\ ret' = [op |-> "getAllTags", ok |-> TRUE, value |-> AllTags(store)]
    /\ UNCHANGED <<store, clock, subs, born, deleted>>

NextScan ==
    \/ getLanguages /\ AtRest
    \/ getFrameworks /\ AtRest
    \/ getAllTags /\ AtRest
    \/ \E id \in ScanIds : deleteSnippet(id) /\ AtRest

SpecScan == InitScan /\ [][NextScan]_vars

\* the values a scan is to return: the non-empty values of the field, tags flattened
FieldValues(st, f) ==
    { st[i][f] : i \in { j \in DOMAIN st : Has(st[j], f) /\ st[j][f] \notin {Null, ""} } }

TagValues(st) ==
    UNION { { st[i].tags[k] : k \in 1..Len(st[i].tags) } \ {""} :
            i \in { j \in DOMAIN st : Has(st[j], "tags") } }

\* strictly ascending by code units (hence no duplicates), holding exactly the set S
AscendingExactly(arr, S) ==
    /\ { arr[k] : k \in 1..Len(arr) } = S
    /\ \A j, k \in 1..Len(arr) : j < k => CodeUnitLess(Utf16[arr[j]], Utf16[arr[k]])

----------------------------------------------------------------------------
(* LanguageSnippets: the client-side sort of the delivered snippets *)

\* the data-access layer at rest, for the specifications of single components
RepoIdle ==
    /\ store = EmptyStore
    /\ clock = Clock0
    /\ subs = [s \in SubIds |-> Idle]
    /\ ret = [op |-> "none"]
    /\ born = [i \in {} |-> NoFilter]
    /\ deleted = {}

RepoAtRest == UNCHANGED <<store, clock, subs, ret, born, deleted>>

\* a letter without its case: the primary weight of the collation
FoldCase(c) == IF c \in 65..90 THEN c + 32 ELSE c

Primary(u) == [k \in 1..Len(u) |-> FoldCase(u[k])]

\* a.localeCompare(b) with no options: the letters decide; between strings that
\* differ in case only, the case decides, lower or upper first as the locale has it
LocaleCompareCodeUnits(a, b, caseFirst) ==
    IF CodeUnitLess(Utf16[a], Utf16[b]) THEN -1
    ELSE IF CodeUnitLess(Utf16[b], Utf16[a]) THEN 1 ELSE 0

LocaleCompare(a, b, caseFirst) ==
    LET ua == Utf16[a]
        ub == Utf16[b]
    IN  IF CodeUnitLess(Primary(ua), Primary(ub)) THEN -1
        ELSE IF CodeUnitLess(Primary(ub), Primary(ua)) THEN 1
        ELSE IF ua = ub THEN 0
        ELSE IF CodeUnitLess(ua, ub) = (caseFirst = "upper") THEN -1 ELSE 1

\* a.title || ""
TitleOf(a) == IF Has(a, "title") /\ Truthy(a.title) THEN a.title ELSE ""

\* a.createdAt?.toDate() || new Date(0), in milliseconds
DateOfMissingLatest(a) == IF Has(a, "createdAt") THEN a.createdAt ELSE MaxClock + 1
DateOf(a) == IF Has(a, "createdAt") THEN a.createdAt ELSE 0

\* the comparator of each case of the switch
Comparator(sortBy, a, b, caseFirst) ==
    CASE sortBy = "newest" -> DateOf(b) - DateOf(a)
      [] sortBy = "oldest" -> DateOf(a) - DateOf(b)
      [] sortBy = "titleAZ" -> LocaleCompare(TitleOf(a), TitleOf(b), caseFirst)
      [] sortBy = "titleZA" -> LocaleCompare(TitleOf(b), TitleOf(a), caseFirst)

\* Array.prototype.sort(compareFn): a stable sort, so an element's place is the
\* number of elements that sort before it, or compare equal and stood before it
SortedPlaceUnstable(arr, i, sortBy, caseFirst) ==
    Cardinality({ j \in 1..Len(arr) :
        LET c == Comparator(sortBy, arr[j], arr[i], caseFirst)
        IN  c < 0 \/ (c = 0 /\ j > i) }) + 1

SortedPlace(arr, i, sortBy, caseFirst) ==
    Cardinality({ j \in 1..Len(arr) :
        LET c == Comparator(sortBy, arr[j], arr[i], caseFirst)
        IN  c < 0 \/ (c = 0 /\ j < i) }) + 1

getSortedSnippets(snippets, sortBy, caseFirst) ==
    [r \in 1..Len(snippets) |->
        snippets[CHOOSE i \in 1..Len(snippets) :
                     SortedPlace(snippets, i, sortBy, caseFirst) = r]]

SortOptions == {"newest", "oldest", "titleAZ", "titleZA"}

\* what a snapshot of the page's query can deliver, by the fields the sort reads
ListedDocs ==
    { [title |-> "banana", createdAt |-> 2],
      [title |-> "Apple", createdAt |-> 1],
      [title |-> "cherry"],
      [title |-> "apple", createdAt |-> 2],
      [title |-> "Banana", createdAt |-> 1],
      [title |-> ""],
      [createdAt |-> 2] }

Listings ==
    UNION { { [k \in 1..n |-> WithId(k, f[k])] : f \in [1..n -> ListedDocs] } :
            n \in 0..MaxListed }

\* the page mounts: no snippets yet, sorted newest first
InitSort ==
    /\ RepoIdle /\ FormsIdle /\ LiveIdle /\ SiteIdle
    /\ http = NoRequest
    /\ \E cf \in {"lower", "upper"} :
          view = [mounted |-> TRUE, loading |-> TRUE, caseFirst |-> cf,
                  snippets |-> <<>>, sortBy |-> "newest", sortedSnippets |-> <<>>,
                  shown |-> [k \in {"newest"} |-> <<>>]]

\* a render: sortedSnippets is computed from the state; shown keeps, as history,
\* the list rendered under each option since the snippets last changed
Rendered(v) ==
    LET sorted == getSortedSnippets(v.snippets, v.sortBy, v.caseFirst)
    IN  [v EXCEPT !.sortedSnippets = sorted,
                  !.shown = Spread(v.shown, [k \in {v.sortBy} |-> sorted])]

\* the first snapshot of the page's listener: setSnippets, setLoading(false)
SnapshotArrives(snippetData) ==
    /\ view.mounted /\ view.loading
    /\ view' = Rendered([view EXCEPT !.snippets = snippetData, !.loading = FALSE,
                                     !.shown = [k \in {} |-> <<>>]])
    /\ UNCHANGED <<formVars, liveVars, http, siteVars>>

\* the select changes: setSortBy(e.target.value)
setSortBy(option) ==
    /\ view.mounted
    /\ view' = Rendered([view EXCEPT !.sortBy = option])
    /\ UNCHANGED <<formVars, liveVars, http, siteVars>>

NextSort ==
    \/ \E l \in Listings : SnapshotArrives(l) /\ RepoAtRest
    \/ \E o \in SortOptions : setSortBy(o) /\ RepoAtRest

SpecSort == InitSort /\ [][NextSort]_vars

\* the sort keys as the claims name them: a missing title is the empty string, and
\* titles compare without regard to case
TitleKey(a) == IF Has(a, "title") THEN a.title ELSE ""

TitleBeforeIgnoringCase(a, b) ==
    CodeUnitLess(Primary(Utf16[TitleKey(a)]), Primary(Utf16[TitleKey(b)]))

SameSnippets(l1, l2) ==
    /\ Len(l1) = Len(l2)
    /\ \A k \in 1..Len(l1) : \E j \in 1..Len(l2) : l2[j] = l1[k]

PlaceOf(list, id) == CHOOSE k \in 1..Len(list) : list[k].id = id

\* C17: under "titleAZ" the page shows the delivered snippets in ascending order of
\* title, compared without regard to case, a missing title counting as "".
C17_TitleAZAscending ==
    (view.mounted /\ view.sortBy = "titleAZ") =>
        /\ SameSnippets(view.snippets, view.sortedSnippets)
        /\ \A j, k \in 1..Len(view.sortedSnippets) :
              j < k => ~TitleBeforeIgnoringCase(view.sortedSnippets[k],
                                                view.sortedSnippets[j])

\* the example of the claim: banana, Apple, cherry is shown as Apple, banana, cherry
C17_Witness ==
    /\ view.mounted /\ view.sortBy = "titleAZ"
    /\ Len(view.snippets) = 3
    /\ [k \in 1..3 |-> TitleKey(view.snippets[k])] = <<"banana", "Apple", "cherry">>
    /\ [k \in 1..3 |-> TitleKey(view.sortedSnippets[k])] = <<"Apple", "banana", "cherry">>

\* C18: a snippet without createdAt counts as the oldest: "newest" shows it after
\* every snippet that has a timestamp, "oldest" before every one.
C18_MissingDateIsEarliest ==
    view.mounted =>
        \A j, k \in 1..Len(view.sortedSnippets) :
            /\ (j < k /\ Has(view.sortedSnippets[j], "createdAt")
                      /\ ~Has(view.sortedSnippets[k], "createdAt"))
                  => view.sortBy # "oldest"
            /\ (j < k /\ ~Has(view.sortedSnippets[j], "createdAt")
                      /\ Has(view.sortedSnippets[k], "createdAt"))
                  => view.sortBy # "newest"

\* "oldest" moved a snippet without createdAt from the end of the delivery to the front
C18_Witness ==
    /\ view.mounted /\ view.sortBy = "oldest"
    /\ Len(view.snippets) = 3
    /\ Has(view.snippets[1], "createdAt") /\ Has(view.snippets[2], "createdAt")
    /\ ~Has(view.snippets[3], "createdAt")
    /\ view.sortedSnippets[1] = view.snippets[3]

\* the sort key of a snippet under an option, as the claims name it
SameKey(option, a, b) ==
    IF option \in {"titleAZ", "titleZA"}
    THEN TitleKey(a) = TitleKey(b)
    ELSE /\ Has(a, "createdAt") = Has(b, "createdAt")
         /\ Has(a, "createdAt") => a.createdAt = b.createdAt

\* C19: two snippets with different titles stand in opposite order under "titleAZ"
\* and "titleZA"; under every option, snippets with equal sort keys keep the order
\* in which they were delivered.
C19_InverseAndStable ==
    view.mounted =>
        /\ ({"titleAZ", "titleZA"} \subseteq DOMAIN view.shown) =>
              \A i, j \in 1..Len(view.snippets) :
                  TitleKey(view.snippets[i]) # TitleKey(view.snippets[j]) =>
                      (PlaceOf(view.shown["titleAZ"], i) < PlaceOf(view.shown["titleAZ"], j))
                      = (PlaceOf(view.shown["titleZA"], i) > PlaceOf(view.shown["titleZA"], j))
        /\ \A o \in DOMAIN view.shown :
              \A i, j \in 1..Len(view.snippets) :
                  (i < j /\ SameKey(o, view.snippets[i], view.snippets[j])) =>
                      PlaceOf(view.shown[o], i) < PlaceOf(view.shown[o], j)

\* both title orders were shown for a delivery that repeats a title and has another
C19_Witness ==
    /\ view.mounted /\ {"titleAZ", "titleZA"} \subseteq DOMAIN view.shown
    /\ Len(view.snippets) = 3
    /\ TitleKey(view.snippets[1]) = TitleKey(view.snippets[3])
    /\ TitleKey(view.snippets[1]) # TitleKey(view.snippets[2])
    /\ PlaceOf(view.shown["titleZA"], 2) = 1

----------------------------------------------------------------------------
(* The explain-code route: POST *)

\* the JSON objects a request carries: code and language, each possibly left out
JsonBodies ==
    UNION { [F -> {Null, "", "x = 1", "Python"}] : F \in SUBSET {"code", "language"} }

\* a request body: a JSON object, or a text request.json() cannot parse
Unparsable == [json |-> FALSE]

Bodies == { [json |-> TRUE, value |-> b] : b \in JsonBodies } \cup {Unparsable}

\* what the generative model answers, and the messages of the errors it throws
Texts == {"It assigns 1 to x.", ""}
Failures == {"quota exceeded", "fetch failed"}

\* const { code, language } = ...: a key the body lacks is undefined
Field(b, f) == IF Has(b, f) THEN b[f] ELSE Absent

\* NextResponse.json(body, { status }); the status is 200 when none is given
JsonResponse(body, status) == [status |-> status, body |-> body]

\* a request arrives
Post(b) ==
    /\ http.pc = "idle"
    /\ http' = [pc |-> "start", request |-> b, code |-> Absent, language |-> Absent,
                generated |-> 0, text |-> Absent, thrown |-> FALSE, message |-> Absent,
                responses |-> <<>>]
    /\ UNCHANGED <<formVars, liveVars, view, siteVars>>

\* await request.json(), destructured: it throws on a body that is not JSON
ParseBody ==
    /\ http.pc = "start"
    /\ http' = IF http.request = Unparsable
               THEN [http EXCEPT !.pc = "catch", !.thrown = TRUE,
                                 !.message = "Unexpected token"]
               ELSE [http EXCEPT !.pc = "validate",
                                 !.code = Field(http.request.value, "code"),
                                 !.language = Field(http.request.value, "language")]
    /\ UNCHANGED <<formVars, liveVars, view, siteVars>>

\* if (!code) return 400
ValidateAlways(h) == [h EXCEPT !.pc = "generate"]
Validate(h) ==
    IF ~Truthy(h.code)
    THEN [h EXCEPT !.pc = "done",
                   !.responses = Append(@, JsonResponse([error |-> "Code is required"], 400))]
    ELSE [h EXCEPT !.pc = "generate"]

CheckCode ==
    /\ http.pc = "validate"
    /\ http' = Validate(http)
    /\ UNCHANGED <<formVars, liveVars, view, siteVars>>

\* the prompt is built and the model is called: it answers with a text, or throws
Generate ==
    /\ http.pc = "generate"
    /\ \/ \E t \in Texts :
             http' = [http EXCEPT !.pc = "respond", !.generated = @ + 1, !.text = t]
       \/ \E m \in Failures :
             http' = [http EXCEPT !.pc = "catch", !.generated = @ + 1,
                                  !.thrown = TRUE, !.message = m]
    /\ UNCHANGED <<formVars, liveVars, view, siteVars>>

\* return NextResponse.json({ explanation, success: true })
Respond ==
    /\ http.pc = "respond"
    /\ http' = [http EXCEPT !.pc = "done",
                   !.responses = Append(@, JsonResponse(
                       [explanation |-> http.text, success |-> TRUE], 200))]
    /\ UNCHANGED <<formVars, liveVars, view, siteVars>>

\* catch (error): return 500 with error.message as details
Catch ==
    /\ http.pc = "catch"
    /\ http' = [http EXCEPT !.pc = "done",
                   !.responses = Append(@, JsonResponse(
                       [error |-> "Failed to explain code. Please try again.",
                        details |-> http.message], 500))]
    /\ UNCHANGED <<formVars, liveVars, view, siteVars>>

\* the handler has returned; the route serves the next request
Served ==
    /\ http.pc = "done"
    /\ http' = NoRequest
    /\ UNCHANGED <<formVars, liveVars, view, siteVars>>

InitExplain ==
    /\ RepoIdle /\ FormsIdle /\ LiveIdle /\ SiteIdle
    /\ view = NoView
    /\ http = NoRequest

NextExplain ==
    \/ \E b \in Bodies : Post(b) /\ RepoAtRest
    \/ ParseBody /\ RepoAtRest
    \/ CheckCode /\ RepoAtRest
    \/ Generate /\ RepoAtRest
    \/ Respond /\ RepoAtRest
    \/ Catch /\ RepoAtRest
    \/ Served /\ RepoAtRest

SpecExplain == InitExplain /\ [][NextExplain]_vars

\* the body of the request is a JSON object without code, or with an empty one
NoCode(b) == b.json /\ (Has(b.value, "code") => b.value.code \in {Null, ""})

----------------------------------------------------------------------------
(* SnippetEditForm: the edit page of a snippet *)

\* a Firestore call of an async function rejects: nothing catches it, so the
\* promise the function returned rejects with the same error, and the caller has it
Calls == {"getSnippet", "addSnippet", "updateSnippet", "deleteSnippet",
          "getLanguages", "getFrameworks", "getAllTags"}

Rejects(call) ==
    /\ ret' = [op |-> call, ok |-> FALSE, error |-> "unavailable"]
    /\ UNCHANGED <<store, clock, subs, born, deleted, inbox, views, log, faults>>

\* the accounts that sign in, with what handleSubmit reads of a user
Profiles ==
    [alice |-> [uid |-> "alice", displayName |-> "Alice", email |-> "alice@example.com"],
     bob |-> [uid |-> "bob", displayName |-> Null, email |-> "bob@example.com"]]

Uids == DOMAIN Profiles

\* useAuthState(auth): undefined while the auth state loads, null when signed out
AuthStates == {Absent, Null} \cup Uids

\* the collection the pages work on: a snippet alice owns, and one as the add
\* form writes it, with the uid as author and no userId
FormStore ==
    [i \in {1, 2} |->
        IF i = 1
        THEN [title |-> "Hooks", description |-> "About hooks", code |-> "useState()",
              language |-> "JavaScript", framework |-> "React",
              tags |-> <<"hooks", "state">>, isPublic |-> TRUE,
              author |-> "Alice", userId |-> "alice",
              createdAt |-> 1, updatedAt |-> 1, rating |-> 0, numRatings |-> 0]
        ELSE [title |-> "Loop", description |-> "", code |-> "for x in xs",
              language |-> "Python", framework |-> Null,
              tags |-> <<>>, isPublic |-> TRUE, author |-> "bob",
              createdAt |-> 2, updatedAt |-> 2, rating |-> 0, numRatings |-> 0]]

FormIds == DOMAIN FormStore

\* String.prototype.trim on the texts typed into the form
Trim(text) ==
    CASE text = " " -> ""
      [] text = " state" -> "state"
      [] text = " hooks" -> "hooks"
      [] OTHER -> text

\* a tag after ", " in the joined text
Spaced == [hooks |-> " hooks", state |-> " state"]

\* the tags input holds a text; it is kept here as its parts between the commas
\* data.tags.join(", ")
Join(tags) == [k \in 1..Len(tags) |-> IF k = 1 THEN tags[k] ELSE Spaced[tags[k]]]

\* tags.split(",").map(tag => tag.trim()).filter(tag => tag)
ParseTags(parts) ==
    SelectSeq([k \in 1..Len(parts) |-> Trim(parts[k])], LAMBDA t : t # "")

\* x || "" for a field of the fetched document
OrEmpty(data, f) == IF Has(data, f) /\ Truthy(data[f]) THEN data[f] ELSE ""

\* the component after useState: loading, no error, empty fields
NewForm(snippetId) ==
    [mounted |-> TRUE, snippetId |-> snippetId, loading |-> TRUE, error |-> Null,
     saving |-> FALSE, alert |-> Null, fetching |-> 0, writing |-> <<>>,
     title |-> "", description |-> "", code |-> "", language |-> "",
     framework |-> "", tags |-> <<>>, isPublic |-> TRUE]

\* the effect on [snippetId, user]: fetchSnippet() unless user is undefined;
\* fetchSnippet stops with an error when nobody is signed in
RunEffect(f, u) ==
    IF u = Absent THEN f
    ELSE IF u = Null
    THEN [f EXCEPT !.error = "You must be logged in to edit snippets", !.loading = FALSE]
    ELSE [f EXCEPT !.fetching = @ + 1]

\* the browser shows one page at a time
NoPage == ~form.mounted /\ ~adding.mounted /\ ~detail.mounted

\* the edit page of a snippet is opened
Mount(snippetId) ==
    /\ NoPage
    /\ form' = RunEffect(NewForm(snippetId), user)
    /\ UNCHANGED <<user, liveVars, pageVars, siteVars>>

\* the auth state changes; a mounted form runs its effect again
AuthStateChanged(u) ==
    /\ u # user /\ u # Absent
    /\ (form.mounted /\ u \in Uids) => form.fetching < MaxFetches
    /\ user' = u
    /\ form' = IF form.mounted THEN RunEffect(form, u) ELSE form
    /\ UNCHANGED <<liveVars, pageVars, siteVars>>

\* window.location.reload(), as useUserSession calls it after a change of user
\* (or the browser's own reload): the page is left with no write in flight, and
\* the auth state loads again
Reload ==
    /\ ~NoPage
    /\ form.mounted => form.writing = <<>>
    /\ adding.mounted => adding.writing = <<>>
    /\ detail.mounted => ~detail.writing
    /\ user' = Absent
    /\ form' = NoForm /\ adding' = NoForm /\ detail' = NoView
    /\ UNCHANGED <<liveVars, pageVars, listVars, session>>

\* getDoc resolves: the fields are filled from the document, or the error is set
FetchDone ==
    /\ form.mounted /\ form.fetching > 0
    /\ form' =
          IF form.snippetId \in DOMAIN store
          THEN LET data == store[form.snippetId]
               IN  [form EXCEPT !.fetching = @ - 1, !.loading = FALSE,
                       !.title = OrEmpty(data, "title"),
                       !.description = OrEmpty(data, "description"),
                       !.code = OrEmpty(data, "code"),
                       !.language = OrEmpty(data, "language"),
                       !.framework = OrEmpty(data, "framework"),
                       !.tags = IF Has(data, "tags") THEN Join(data.tags) ELSE <<>>,
                       !.isPublic = IF Has(data, "isPublic") THEN data.isPublic ELSE TRUE]
          ELSE [form EXCEPT !.fetching = @ - 1, !.loading = FALSE,
                            !.error = "Snippet not found"]
    /\ UNCHANGED <<user, liveVars, pageVars, siteVars>>

\* getDoc rejects
FetchFails ==
    /\ form.mounted /\ form.fetching > 0
    /\ form' = [form EXCEPT !.fetching = @ - 1, !.loading = FALSE,
                            !.error = "Failed to load snippet"]
    /\ UNCHANGED <<user, liveVars, pageVars, siteVars>>

\* the form is rendered: neither the loading nor the error box
FormShown == form.mounted /\ ~form.loading /\ form.error = Null

\* what is typed into the inputs
Typed ==
    [title |-> {""}, description |-> {"", "Edited"},
     tags |-> {<<"hooks", "", " state">>}]

\* onChange of an input
Type(field, text) ==
    /\ FormShown
    /\ form' = [form EXCEPT ![field] = text]
    /\ UNCHANGED <<user, liveVars, pageVars, siteVars>>

\* the snippetData handleSubmit builds
EditedSnippet(f, u) ==
    [title |-> Trim(f.title), description |-> Trim(f.description), code |-> Trim(f.code),
     language |-> f.language,
     framework |-> IF f.framework # "" THEN f.framework ELSE Null,
     tags |-> ParseTags(f.tags),
     isPublic |-> f.isPublic,
     author |-> IF Truthy(Profiles[u].displayName)
                THEN Profiles[u].displayName ELSE Profiles[u].email,
     userId |-> Profiles[u].uid]

\* handleSubmit up to the await: the checks, setSaving(true), updateSnippet called
handleSubmit ==
    /\ FormShown /\ ~form.saving
    /\ form' =
          IF "" \in {form.title, form.description, form.code, form.language}
          THEN [form EXCEPT !.alert = "Please fill in all required fields"]
          ELSE IF user \notin Uids
          THEN [form EXCEPT !.alert = "You must be logged in to edit snippets"]
          ELSE [form EXCEPT !.saving = TRUE,
                            !.writing = <<EditedSnippet(form, user)>>]
    /\ UNCHANGED <<user, liveVars, pageVars, siteVars>>

\* (mutant) the catch calls updateSnippet again instead of giving up
UpdateSettlesRetry ==
    /\ form.mounted /\ form.writing # <<>>
    /\ \/ updateSnippet(form.snippetId, form.writing[1])
       \/ Rejects("updateSnippet")
    /\ form' = IF ret'.ok THEN NoForm ELSE form
    /\ UNCHANGED <<user, liveVars, pageVars, siteVars>>

\* updateSnippet settles, with not-found or with a failure of the store among the
\* outcomes: on success router.push leaves the page, on failure the catch alerts
\* and clears saving
UpdateSettles ==
    /\ form.mounted /\ form.writing # <<>>
    /\ \/ updateSnippet(form.snippetId, form.writing[1])
       \/ Rejects("updateSnippet")
    /\ form' = IF ret'.ok THEN NoForm
               ELSE [form EXCEPT !.saving = FALSE, !.writing = <<>>,
                        !.alert = "Failed to update snippet. Please try again."]
    /\ UNCHANGED <<user, liveVars, pageVars, siteVars>>

----------------------------------------------------------------------------
(* AddSnippetPage: the add form, in the two versions the sources hold *)

AddSnippetPages == {"app/add-snippet/page.jsx", "app/snippet/[id]/edit/page.jsx"}

\* the component after useState; by is history: the user handleSubmit ran for
NewAddPage(page) ==
    [mounted |-> TRUE, page |-> page, saving |-> FALSE, error |-> "",
     writing |-> <<>>, by |-> Null,
     title |-> "", description |-> "", code |-> "", language |-> "JavaScript"]

MountAdd(page) ==
    /\ NoPage
    /\ adding' = NewAddPage(page)
    /\ UNCHANGED <<user, form, detail, liveVars, pageVars, listVars, session>>

\* the form is rendered: neither "Loading..." nor "Please sign in to add snippets"
AddShown == adding.mounted /\ user \in Uids

AddTyped ==
    [title |-> {"Loop"}, description |-> {"A loop"}, code |-> {"for x in xs"}]

\* handleChange of an input
handleChange(field, text) ==
    /\ AddShown
    /\ adding' = [adding EXCEPT ![field] = text]
    /\ UNCHANGED <<user, form, detail, liveVars, pageVars, listVars, session>>

\* the snippetData handleSubmit builds: the first version has the uid as author
\* and no userId, the second the name as author and the uid as userId
AddedSnippet(f, u) ==
    LET data == [title |-> Trim(f.title), description |-> Trim(f.description),
                 code |-> f.code, language |-> f.language, framework |-> Null,
                 tags |-> <<>>, isPublic |-> TRUE]
    IN  IF f.page = "app/add-snippet/page.jsx"
        THEN Spread(data, [author |-> Profiles[u].uid])
        ELSE Spread(data,
                    [author |-> IF Truthy(Profiles[u].displayName)
                                THEN Profiles[u].displayName ELSE Profiles[u].email,
                     userId |-> Profiles[u].uid])

\* handleSubmit up to the await: the checks, setSaving(true), addSnippet called
handleSubmitAdd ==
    /\ AddShown /\ ~adding.saving
    /\ FreshIds \ DOMAIN born # {}
    /\ adding' =
          IF Trim(adding.title) = ""
          THEN [adding EXCEPT !.error = "Title is required"]
          ELSE IF Trim(adding.code) = ""
          THEN [adding EXCEPT !.error = "Code is required"]
          ELSE [adding EXCEPT !.error = "", !.saving = TRUE, !.by = user,
                              !.writing = <<AddedSnippet(adding, user)>>]
    /\ UNCHANGED <<user, form, detail, liveVars, pageVars, listVars, session>>

\* addSnippet settles: on success router.push leaves the page, on failure the
\* catch sets the error and clears saving
AddSettles ==
    /\ adding.mounted /\ adding.writing # <<>>
    /\ \/ addSnippet(adding.writing[1])
       \/ Rejects("addSnippet")
    /\ adding' = IF ret'.ok THEN NoForm
                 ELSE [adding EXCEPT !.saving = FALSE, !.writing = <<>>,
                          !.error = "Failed to save snippet. Please try again."]
    /\ UNCHANGED <<user, form, detail, liveVars, pageVars, listVars, session>>

----------------------------------------------------------------------------
(* SnippetDetail: the detail page with its delete confirmation, in the two *)
(* versions the sources hold                                               *)

SnippetDetails == {"components/SnippetDetail.jsx", "components/SnippetListings.jsx"}

\* the component after useState
NewDetail(page, snippetId) ==
    [mounted |-> TRUE, page |-> page, snippetId |-> snippetId, loading |-> TRUE,
     error |-> Null, snippet |-> <<>>, showDeleteConfirm |-> FALSE,
     deleting |-> FALSE, alert |-> Null, writing |-> FALSE]

MountDetail(page, snippetId) ==
    /\ NoPage
    /\ detail' = NewDetail(page, snippetId)
    /\ UNCHANGED <<user, form, adding, liveVars, pageVars, listVars, session>>

\* getDoc resolves: the snippet is kept, or the error is set
DetailFetchDone ==
    /\ detail.mounted /\ detail.loading
    /\ detail' =
          IF detail.snippetId \in DOMAIN store
          THEN [detail EXCEPT !.loading = FALSE,
                   !.snippet = <<WithId(detail.snippetId, store[detail.snippetId])>>]
          ELSE [detail EXCEPT !.loading = FALSE, !.error = "Snippet not found"]
    /\ UNCHANGED <<user, form, adding, liveVars, pageVars, listVars, session>>

\* getDoc rejects
DetailFetchFails ==
    /\ detail.mounted /\ detail.loading
    /\ detail' = [detail EXCEPT !.loading = FALSE, !.error = "Failed to load snippet"]
    /\ UNCHANGED <<user, form, adding, liveVars, pageVars, listVars, session>>

\* the snippet is rendered: neither the loading nor the error box
DetailShown ==
    detail.mounted /\ ~detail.loading /\ detail.error = Null /\ detail.snippet # <<>>

\* the Delete button is rendered: for any signed-in user in the first version,
\* for the user the fetched snippet has as userId in the second
DeleteOffered ==
    /\ DetailShown /\ user \in Uids
    /\ detail.page = "components/SnippetListings.jsx" =>
           /\ Has(detail.snippet[1], "userId")
           /\ detail.snippet[1].userId = Profiles[user].uid

\* the Delete button: the confirmation is opened
ConfirmDelete ==
    /\ DeleteOffered /\ ~detail.deleting /\ ~detail.showDeleteConfirm
    /\ detail' = [detail EXCEPT !.showDeleteConfirm = TRUE]
    /\ UNCHANGED <<user, form, adding, liveVars, pageVars, listVars, session>>

\* Cancel in the confirmation
CancelDelete ==
    /\ DetailShown /\ detail.showDeleteConfirm /\ ~detail.deleting
    /\ detail' = [detail EXCEPT !.showDeleteConfirm = FALSE]
    /\ UNCHANGED <<user, form, adding, liveVars, pageVars, listVars, session>>

\* "Yes, Delete" in the confirmation, up to the await: setDeleting(true),
\* deleteDoc called
handleDelete ==
    /\ DetailShown /\ detail.showDeleteConfirm /\ ~detail.deleting
    /\ detail' = [detail EXCEPT !.deleting = TRUE, !.writing = TRUE]
    /\ UNCHANGED <<user, form, adding, liveVars, pageVars, listVars, session>>

\* deleteDoc resolves: router.push leaves the page
DeleteDone ==
    /\ detail.mounted /\ detail.writing
    /\ store' = DeleteDoc(store, detail.snippetId).store
    /\ detail' = NoView
    /\ UNCHANGED <<clock, subs, ret, born, deleted>>
    /\ UNCHANGED <<user, form, adding, liveVars, pageVars, listVars, session>>

\* deleteDoc rejects: the catch alerts, clears deleting and closes the confirmation
DeleteFails ==
    /\ detail.mounted /\ detail.writing
    /\ detail' = [detail EXCEPT !.deleting = FALSE, !.showDeleteConfirm = FALSE,
                      !.writing = FALSE,
                      !.alert = "Failed to delete snippet. Please try again."]
    /\ RepoAtRest
    /\ UNCHANGED <<user, form, adding, liveVars, pageVars, listVars, session>>

InitForms ==
    /\ store = FormStore
    /\ clock = Clock0
    /\ subs = [s \in SubIds |-> Idle]
    /\ ret = [op |-> "none"]
    /\ born = [i \in {} |-> NoFilter]
    /\ deleted = {}
    /\ user = Absent /\ form = NoForm
    /\ LiveIdle /\ PagesIdle /\ SiteIdle

NextForms ==
    \/ \E u \in AuthStates : AuthStateChanged(u) /\ RepoAtRest
    \/ \E id \in FormIds : Mount(id) /\ RepoAtRest
    \/ FetchDone /\ RepoAtRest
    \/ FetchFails /\ RepoAtRest
    \/ \E field \in DOMAIN Typed : \E text \in Typed[field] : Type(field, text) /\ RepoAtRest
    \/ handleSubmit /\ RepoAtRest
    \/ UpdateSettles
    \/ Reload /\ RepoAtRest
    \/ \E id \in FormIds : deleteSnippet(id) /\ AtRest

SpecForms == InitForms /\ [][NextForms]_vars

\* C11 as stated: no step changes the userId a stored snippet has.
C11_UserIdNeverReassigned ==
    [][\A i \in DOMAIN store \cap DOMAIN store' :
          Has(store[i], "userId") =>
              Has(store'[i], "userId") /\ store'[i].userId = store[i].userId]_vars

\* a getDoc that was started settles
FetchSettles == (FetchDone \/ FetchFails) /\ RepoAtRest

SpecFormsFair == SpecForms /\ WF_vars(FetchSettles)

\* a user is signed in, no fetch is in flight, the fields hold a fetched
\* snippet, and no fetch has failed or found nothing
FetchedSignedIn ==
    /\ form.mounted /\ user \in Uids /\ form.fetching = 0
    /\ form.snippetId \in DOMAIN store
    /\ form.code # ""
    /\ form.error \notin {"Failed to load snippet", "Snippet not found"}

\* C30 as stated: once a user is signed in and the snippet has been fetched, the
\* form eventually shows the edit fields rather than an error.
C30_FieldsEventuallyShown == FetchedSignedIn ~> FormShown

----------------------------------------------------------------------------
(* The pages that write: the add form, the detail page with its delete     *)
(* confirmation and the edit form, one page open at a time                  *)

\* the collection the pages start on: the snippet alice owns
SiteStore == [i \in {1} |-> FormStore[i]]

\* the snippets whose pages are opened: the stored one and the created ones
SiteIds == DOMAIN SiteStore \cup FreshIds

InitSite ==
    /\ store = SiteStore
    /\ clock = Clock0
    /\ subs = [s \in SubIds |-> Idle]
    /\ ret = [op |-> "none"]
    /\ born = [i \in {} |-> NoFilter]
    /\ deleted = {}
    /\ user = Absent /\ form = NoForm
    /\ LiveIdle /\ PagesIdle /\ SiteIdle

NextSite ==
    \/ \E u \in AuthStates : AuthStateChanged(u) /\ RepoAtRest
    \/ \E page \in AddSnippetPages : MountAdd(page) /\ RepoAtRest
    \/ \E field \in DOMAIN AddTyped : \E text \in AddTyped[field] :
          handleChange(field, text) /\ RepoAtRest
    \/ handleSubmitAdd /\ RepoAtRest
    \/ AddSettles
    \/ \E page \in SnippetDetails, id \in SiteIds : MountDetail(page, id) /\ RepoAtRest
    \/ DetailFetchDone /\ RepoAtRest
    \/ DetailFetchFails /\ RepoAtRest
    \/ ConfirmDelete /\ RepoAtRest
    \/ CancelDelete /\ RepoAtRest
    \/ handleDelete /\ RepoAtRest
    \/ DeleteDone
    \/ DeleteFails
    \/ \E id \in SiteIds : Mount(id) /\ RepoAtRest
    \/ FetchDone /\ RepoAtRest
    \/ FetchFails /\ RepoAtRest
    \/ handleSubmit /\ RepoAtRest
    \/ UpdateSettles
    \/ Reload /\ RepoAtRest

SpecSite == InitSite /\ [][NextSite]_vars

\* the signed-in user is the owner of the stored snippet
Owns(u, id) ==
    /\ u \in Uids /\ id \in DOMAIN store
    /\ Has(store[id], "userId") /\ store[id].userId = Profiles[u].uid

\* this step is the edit form calling updateSnippet
UpdateIssued == form.mounted /\ form.writing = <<>> /\ form'.mounted /\ form'.writing # <<>>

\* this step is the add form calling addSnippet
CreateIssued ==
    adding.mounted /\ adding.writing = <<>> /\ adding'.mounted /\ adding'.writing # <<>>

\* this step is the delete confirmation calling deleteDoc
DeleteIssued == detail.mounted /\ ~detail.writing /\ detail'.mounted /\ detail'.writing

\* C21 as stated: an update or a delete of a snippet is issued only when the
\* signed-in user's uid equals that snippet's userId.
C21_OnlyOwnerMutates ==
    [][/\ UpdateIssued => Owns(user, form.snippetId)
       /\ DeleteIssued => Owns(user, detail.snippetId)]_vars

\* C22 as stated: the add form, the edit form and the delete confirmation issue
\* no create, update or delete while the current user is null.
C22_NoWriteWhileSignedOut ==
    [][(CreateIssued \/ UpdateIssued \/ DeleteIssued) => user \in Uids]_vars

\* C23 as stated: a draft with a title and code and an empty description is
\* accepted by the add form, and a snippet whose description is empty is
\* accepted by the edit form: with the other required fields filled and a user
\* signed in, Save issues the update.
C23_EmptyDescriptionAccepted ==
    [][/\ (handleSubmitAdd /\ Trim(adding.title) # "" /\ Trim(adding.code) # "")
            => CreateIssued
       /\ (handleSubmit /\ user \in Uids /\ form.description = ""
                /\ "" \notin {form.title, form.code, form.language})
            => UpdateIssued]_vars

\* C24 as stated: every snippet the add form creates is persisted with a userId
\* equal to the uid of the user who submitted it.
C24_CreatedWithOwner ==
    [][\A id \in DOMAIN store' \ DOMAIN store :
          /\ adding.mounted /\ adding.by \in Uids
          /\ Has(store'[id], "userId")
          /\ store'[id].userId = Profiles[adding.by].uid]_vars

----------------------------------------------------------------------------
(* The listener of getSnippets in time: snapshot events raised and dispatched *)

\* The Firestore client raises a snapshot event when the result of a listener's
\* query has changed and hands it to the listener's callback in a later task, in
\* the order raised; the unsubscribe function mutes the listener, and an event
\* of a muted listener is dropped.  OnSnapshot above is an event raised and
\* dispatched in one step.

Last(seq) == seq[Len(seq)]

\* the filters of the listeners followed here
LiveFilters == { NoFilter, [language |-> Absent, framework |-> Absent, tag |-> "hooks"] }

\* history: a write is observed as a new result of each active listener's query
Observed ==
    views' = [s \in SubIds |->
                 IF subs[s].active /\ RunQuery(subs[s].q, store') # Last(views[s])
                 THEN Append(views[s], RunQuery(subs[s].q, store'))
                 ELSE views[s]]

\* getSnippets registers the listener of a slot whose earlier events are gone
Subscribe(s, filters) ==
    /\ inbox[s] = <<>>
    /\ getSnippets(s, filters)
    /\ views' = [views EXCEPT ![s] = <<RunQuery(BuildQuery(filters), store)>>]
    /\ log' = [log EXCEPT ![s] = <<>>]
    /\ UNCHANGED <<inbox, faults>>

\* the result the listener was last told of, by an event raised: none at first
Raisable(s, snippets) ==
    IF inbox[s] # <<>> THEN snippets # Last(inbox[s]).snippets
    ELSE ~subs[s].delivered \/ snippets # subs[s].last

\* the client raises a snapshot event: the first result, or a changed one
RaiseFirstOnly(s) ==
    /\ subs[s].active /\ inbox[s] = <<>> /\ ~subs[s].delivered
    /\ inbox' = [inbox EXCEPT ![s] =
                    Append(@, [at |-> Len(views[s]),
                               snippets |-> RunQuery(subs[s].q, store)])]
    /\ UNCHANGED <<store, clock, subs, ret, born, deleted, views, log, faults>>

Raise(s) ==
    /\ subs[s].active
    /\ LET snippets == RunQuery(subs[s].q, store)
       IN  /\ Raisable(s, snippets)
           /\ inbox' = [inbox EXCEPT ![s] =
                           Append(@, [at |-> Len(views[s]), snippets |-> snippets])]
    /\ UNCHANGED <<store, clock, subs, ret, born, deleted, views, log, faults>>

\* the callback of getSnippets runs on the event e
Callback(s, e) ==
    /\ subs' = [subs EXCEPT ![s].delivered = TRUE, ![s].last = e.snippets]
    /\ log' = [log EXCEPT ![s] = Append(@, e)]

\* the oldest event raised is dispatched: to the callback, unless the listener is muted
DispatchMuteIgnored(s) ==
    /\ inbox[s] # <<>>
    /\ inbox' = [inbox EXCEPT ![s] = Tail(@)]
    /\ Callback(s, Head(inbox[s]))
    /\ UNCHANGED <<store, clock, ret, born, deleted, views, faults>>

DispatchNewestFirst(s) ==
    /\ inbox[s] # <<>>
    /\ inbox' = [inbox EXCEPT ![s] = SubSeq(@, 1, Len(@) - 1)]
    /\ IF subs[s].active THEN Callback(s, Last(inbox[s]))
       ELSE UNCHANGED <<subs, log>>
    /\ UNCHANGED <<store, clock, ret, born, deleted, views, faults>>

Dispatch(s) ==
    /\ inbox[s] # <<>>
    /\ inbox' = [inbox EXCEPT ![s] = Tail(@)]
    /\ IF subs[s].active THEN Callback(s, Head(inbox[s]))
       ELSE UNCHANGED <<subs, log>>
    /\ UNCHANGED <<store, clock, ret, born, deleted, views, faults>>

\* the listener fails (its query is rejected): onSnapshot was given no error
\* callback, so the client logs the error and ends the listener
ListenerError(s) ==
    /\ subs[s].active
    /\ subs' = [subs EXCEPT ![s] = Idle]
    /\ views' = [views EXCEPT ![s] = <<>>]
    /\ log' = [log EXCEPT ![s] = <<>>]
    /\ faults' = faults \cup {[call |-> "getSnippets", listener |-> s]}
    /\ UNCHANGED <<store, clock, ret, born, deleted, inbox>>

InitLive ==
    /\ store = EmptyStore
    /\ clock = Clock0
    /\ subs = [s \in SubIds |-> Idle]
    /\ ret = [op |-> "none"]
    /\ born = [i \in {} |-> NoFilter]
    /\ deleted = {}
    /\ FormsIdle /\ LiveIdle /\ PagesIdle /\ SiteIdle

\* the function getSnippets returned is called: the listener is muted and removed
Cancel(s) ==
    /\ Unsubscribe(s)
    /\ views' = [views EXCEPT ![s] = <<>>]
    /\ log' = [log EXCEPT ![s] = <<>>]
    /\ UNCHANGED <<inbox, faults>>

Quiet == UNCHANGED <<inbox, log, faults, formVars, pageVars, siteVars>>

\* the ids the callers of this specification name
LiveIds == {GhostId} \cup DOMAIN born

\* the two steps of the Firestore client, in this specification
ClientRaises(s) == Raise(s) /\ UNCHANGED <<formVars, pageVars, siteVars>>
ClientDispatches(s) == Dispatch(s) /\ UNCHANGED <<formVars, pageVars, siteVars>>

NextLive ==
    \/ \E s \in SubIds, f \in LiveFilters : Subscribe(s, f) /\ UNCHANGED <<formVars, pageVars, siteVars>>
    \/ \E s \in SubIds : ClientRaises(s)
    \/ \E s \in SubIds : ClientDispatches(s)
    \/ \E s \in SubIds : Cancel(s) /\ UNCHANGED <<formVars, pageVars, siteVars>>
    \/ \E s \in SubIds : ListenerError(s) /\ UNCHANGED <<formVars, pageVars, siteVars>>
    \/ \E c \in Calls : Rejects(c) /\ UNCHANGED <<formVars, pageVars, siteVars>>
    \/ \E d \in Drafts : addSnippet(d) /\ Observed /\ Quiet
    \/ \E id \in LiveIds, p \in Partials : updateSnippet(id, p) /\ Observed /\ Quiet
    \/ \E id \in LiveIds : deleteSnippet(id) /\ Observed /\ Quiet

SpecLive == InitLive /\ [][NextLive]_vars

\* the client is live and the event loop runs every task: an event that stays
\* due is raised, an event raised is dispatched
SpecLiveFair ==
    /\ SpecLive
    /\ \A s \in SubIds : WF_vars(ClientRaises(s)) /\ WF_vars(ClientDispatches(s))

\* C12: once the function getSnippets returned has been called, the callback is
\* not called again: while the listener stays removed, nothing is delivered to it.
C12_NoCallAfterCancel ==
    [][\A s \in SubIds :
          (~subs[s].active /\ ~subs'[s].active) =>
              (log'[s] = log[s] /\ subs'[s] = subs[s])]_vars

\* the listener was cancelled with an event still to dispatch, and the snippet deleted
C12_Witness ==
    \E s \in SubIds :
        /\ ~subs[s].active /\ faults = {}
        /\ inbox[s] # <<>> /\ Last(inbox[s]).snippets # <<>>
        /\ deleted # {}

\* C13: the callback of one listener is called with results of successive states
\* of the store: each is the result at a state no older than the one before it.
C13_DeliveriesInStoreOrder ==
    \A s \in SubIds :
        /\ \A k \in 1..Len(log[s]) :
              /\ log[s][k].at \in 1..Len(views[s])
              /\ log[s][k].snippets = views[s][log[s][k].at]
        /\ \A j, k \in 1..Len(log[s]) : j < k => log[s][j].at <= log[s][k].at

\* two deliveries, the second of a later state, with a state between them skipped
C13_Witness ==
    \E s \in SubIds :
        /\ Len(log[s]) >= 2
        /\ log[s][2].at > log[s][1].at + 1

\* the results delivered to a listener, and the results its query went through
ResultsOf(events) == { events[k].snippets : k \in 1..Len(events) }
StatesOf(history) == { history[k] : k \in 1..Len(history) }

\* C14: a listener that stays registered is in the end called with the result of
\* the final state of the store; it is called with no more distinct results than
\* its query had.
C14_EventuallyFinalResult ==
    /\ \A s \in SubIds :
          <>[](subs[s].active) =>
              <>[](subs[s].delivered /\ subs[s].last = RunQuery(subs[s].q, store))
    /\ [](\A s \in SubIds :
             /\ ResultsOf(log[s]) \subseteq StatesOf(views[s])
             /\ Cardinality(ResultsOf(log[s])) <= Cardinality(StatesOf(views[s]))
             /\ Len(log[s]) <= Len(views[s]))

\* writes coalesced: the result of the final state was delivered, fewer calls than states
C14_Witness ==
    \E s \in SubIds :
        /\ subs[s].active /\ subs[s].delivered /\ inbox[s] = <<>>
        /\ subs[s].last = RunQuery(subs[s].q, store)
        /\ Len(views[s]) >= 3 /\ Len(log[s]) < Len(views[s])

\* C15 as stated: no failure of Firestore is kept from the caller.
C15_NoFailureSwallowed ==
    /\ faults = {}
    /\ (ret.op \in Calls /\ ~ret.ok) => Has(ret, "error")

----------------------------------------------------------------------------
(* The list views and their subscriptions: SnippetListings with its filters *)
(* and Explain buttons, LanguageSnippets, TestSnippetPage                  *)

ListPages == {"SnippetListings", "LanguageSnippets", "TestSnippetPage"}

\* the collection the views list
ListStore ==
    [i \in {1, 2} |->
        IF i = 1
        THEN [title |-> "Hooks", code |-> "useState()", language |-> "JavaScript",
              framework |-> "React", tags |-> <<"hooks">>, createdAt |-> 1]
        ELSE [title |-> "Loop", code |-> "for x in xs", language |-> "Python",
              framework |-> Null, tags |-> <<>>, createdAt |-> 2]]

ListIds == DOMAIN ListStore

\* the values of the three selects; "" is "All"
NoSelection == [language |-> "", framework |-> "", tag |-> ""]

FilterValues == [language |-> {"", "Python"}, framework |-> {"", "React"}, tag |-> {"", "hooks"}]

\* the filters object the effect of SnippetListings builds: a key per set select
SelectedFilters(sel) ==
    [f \in DOMAIN sel |-> IF Truthy(sel[f]) THEN sel[f] ELSE Absent]

\* the query a view listens to: getSnippets(filters), getSnippets({}), or the
\* language alone with no orderBy
ViewQuery(page, sel) ==
    CASE page = "SnippetListings" -> BuildQuery(SelectedFilters(sel))
      [] page = "TestSnippetPage" -> BuildQuery(NoFilter)
      [] page = "LanguageSnippets" -> Where(Collection, "language", "==", sel.language)

\* snapshot.docs mapped by the callback; a query with no orderBy is delivered
\* by document id
SnapshotDocs(q, st) ==
    IF q.order.field # Absent THEN RunQuery(q, st)
    ELSE LET n == Len(EveryId)
             ascending == [k \in 1..n |-> EveryId[n + 1 - k]]
             ids == SelectSeq(ascending,
                       LAMBDA i : /\ i \in DOMAIN st
                                  /\ \A k \in 1..Len(q.conds) : CondHolds(q.conds[k], st[i]))
         IN  [k \in 1..Len(ids) |-> WithId(ids[k], st[ids[k]])]

\* the component after useState and its first render; the effect is still to
\* run; loadingExplanation holds the id, or nothing for null
NewListing(page, sel) ==
    [mounted |-> TRUE, page |-> page, selected |-> sel, pc |-> "effect",
     snippets |-> <<>>, loading |-> TRUE,
     explanations |-> [i \in {} |-> ""], loadingExplanation |-> <<>>,
     inflight |-> [i \in ListIds |-> 0], alert |-> Null]

\* the selections a page can be opened with: the searchParams, the language of
\* the route, or nothing
Openings(page) ==
    CASE page = "SnippetListings" -> {NoSelection, [NoSelection EXCEPT !.language = "Python"]}
      [] page = "LanguageSnippets" ->
            {[NoSelection EXCEPT !.language = l] : l \in {"Python", "JavaScript"}}
      [] page = "TestSnippetPage" -> {NoSelection}

MountList(page, sel) ==
    /\ ~listing.mounted /\ listeners = <<>>
    /\ listing' = NewListing(page, sel)
    /\ UNCHANGED <<listeners, formVars, liveVars, pageVars, adding, detail, session>>

\* (mutant) the effect returns no cleanup: nothing is unsubscribed
CleanupNothing(ls) == ls

\* the cleanup the last effect returned: unsubscribe() of the listener it registered
Cleanup(ls) == SubSeq(ls, 1, Len(ls) - 1)

\* the effect runs after the render: the listener is registered
ListEffect ==
    /\ listing.mounted /\ listing.pc = "effect"
    /\ Len(listeners) < MaxListeners
    /\ listeners' = Append(listeners,
                       [q |-> ViewQuery(listing.page, listing.selected),
                        delivered |-> FALSE, last |-> <<>>])
    /\ listing' = [listing EXCEPT !.pc = "idle"]
    /\ UNCHANGED <<formVars, liveVars, pageVars, adding, detail, session>>

\* a dependency of the effect changes: the state is set, the view renders, and
\* the cleanup of the previous effect runs before the effect runs again
DepsChange(sel) ==
    /\ listing.mounted /\ listing.pc = "idle"
    /\ sel # listing.selected
    /\ listing' = [listing EXCEPT !.selected = sel, !.pc = "effect"]
    /\ listeners' = Cleanup(listeners)
    /\ UNCHANGED <<formVars, liveVars, pageVars, adding, detail, session>>

\* handleLanguageChange, handleFrameworkChange, handleTagChange
handleFilterChange(field, value) ==
    /\ listing.mounted /\ listing.page = "SnippetListings"
    /\ DepsChange([listing.selected EXCEPT ![field] = value])

handleClearFilters ==
    /\ listing.mounted /\ listing.page = "SnippetListings"
    /\ DepsChange(NoSelection)

\* the route changes to another language: the languageName prop changes
LanguageChanges(name) ==
    /\ listing.mounted /\ listing.page = "LanguageSnippets"
    /\ DepsChange([listing.selected EXCEPT !.language = name])

\* the view is torn down: the cleanup runs
UnmountList ==
    /\ listing.mounted /\ listing.pc = "idle"
    /\ listing' = NoView
    /\ listeners' = Cleanup(listeners)
    /\ UNCHANGED <<formVars, liveVars, pageVars, adding, detail, session>>

\* a listener fires with its first or a changed snapshot: setSnippets(data),
\* setLoading(false); on a view that is gone the state setters do nothing
SnapshotDelivered(k) ==
    /\ k \in 1..Len(listeners)
    /\ listing.mounted => listing.pc = "idle"
    /\ LET data == SnapshotDocs(listeners[k].q, store)
       IN  /\ ~listeners[k].delivered \/ data # listeners[k].last
           /\ listeners' = [listeners EXCEPT ![k].delivered = TRUE, ![k].last = data]
           /\ listing' = IF listing.mounted
                         THEN [listing EXCEPT !.snippets = data, !.loading = FALSE]
                         ELSE listing
    /\ UNCHANGED <<formVars, liveVars, pageVars, adding, detail, session>>

\* the snippets on the screen, each with its Explain button
Listed == { listing.snippets[k].id : k \in 1..Len(listing.snippets) }

\* handleExplainCode(snippet) up to the await: a shown explanation is hidden,
\* else setLoadingExplanation(snippet.id) and the request is sent
handleExplainCode(id) ==
    /\ listing.mounted /\ listing.page = "SnippetListings" /\ listing.pc = "idle"
    /\ ~listing.loading /\ id \in Listed
    /\ listing.loadingExplanation # <<id>>
    /\ listing.inflight[id] < MaxRequests
    /\ listing' =
          IF id \in DOMAIN listing.explanations
          THEN [listing EXCEPT
                   !.explanations = [i \in DOMAIN @ \ {id} |-> @[i]]]
          ELSE [listing EXCEPT !.loadingExplanation = <<id>>,
                               !.inflight[id] = @ + 1]
    /\ UNCHANGED <<listeners, formVars, liveVars, pageVars, adding, detail, session>>

\* the response has success: the explanation is stored; finally
\* setLoadingExplanation(null)
ExplainSucceeds(id) ==
    /\ listing.mounted /\ listing.pc = "idle" /\ listing.inflight[id] > 0
    /\ listing' = [listing EXCEPT
                      !.inflight[id] = @ - 1,
                      !.explanations = Spread(@, [i \in {id} |-> "An explanation"]),
                      !.loadingExplanation = <<>>]
    /\ UNCHANGED <<listeners, formVars, liveVars, pageVars, adding, detail, session>>

\* the response has no success, or fetch rejects: the alert; finally
\* setLoadingExplanation(null)
ExplainFails(id) ==
    /\ listing.mounted /\ listing.pc = "idle" /\ listing.inflight[id] > 0
    /\ listing' = [listing EXCEPT
                      !.inflight[id] = @ - 1,
                      !.alert = "Failed to explain code",
                      !.loadingExplanation = <<>>]
    /\ UNCHANGED <<listeners, formVars, liveVars, pageVars, adding, detail, session>>

InitList ==
    /\ store = ListStore
    /\ clock = Clock0
    /\ subs = [s \in SubIds |-> Idle]
    /\ ret = [op |-> "none"]
    /\ born = [i \in {} |-> NoFilter]
    /\ deleted = {}
    /\ FormsIdle /\ LiveIdle /\ PagesIdle /\ SiteIdle

NextList ==
    \/ \E page \in ListPages : \E sel \in Openings(page) : MountList(page, sel) /\ RepoAtRest
    \/ ListEffect /\ RepoAtRest
    \/ \E field \in DOMAIN FilterValues : \E value \in FilterValues[field] :
          handleFilterChange(field, value) /\ RepoAtRest
    \/ handleClearFilters /\ RepoAtRest
    \/ \E name \in {"Python", "JavaScript"} : LanguageChanges(name) /\ RepoAtRest
    \/ UnmountList /\ RepoAtRest
    \/ \E k \in 1..MaxListeners : SnapshotDelivered(k) /\ RepoAtRest
    \/ \E id \in ListIds : handleExplainCode(id) /\ RepoAtRest
    \/ \E id \in ListIds : ExplainSucceeds(id) /\ RepoAtRest
    \/ \E id \in ListIds : ExplainFails(id) /\ RepoAtRest
    \/ \E id \in ListIds : deleteSnippet(id) /\ AtRest

SpecList == InitList /\ [][NextList]_vars

\* C25: a list view holds at most one live subscription at any time and none
\* once it is torn down; when what its effect depends on changes, the old
\* subscription is cancelled before the replacing one is created.
C25_OneSubscriptionPerView ==
    /\ [](/\ Len(listeners) <= 1
          /\ ~listing.mounted => listeners = <<>>)
    /\ [][(listing.mounted /\ listing'.mounted /\ listing'.selected # listing.selected)
            => (listeners' = <<>> /\ listing'.pc = "effect")]_vars

\* the tag filter was selected after the page was opened, and the replacing
\* subscription has delivered
C25_Witness ==
    /\ listing.mounted /\ listing.page = "SnippetListings" /\ listing.pc = "idle"
    /\ listing.selected.tag = "hooks"
    /\ Len(listeners) = 1 /\ listeners[1].delivered
    /\ listeners[1].q = BuildQuery(SelectedFilters(listing.selected))

\* the snippet passes the three selects
Matches(snippet, sel) ==
    /\ sel.language # "" => (Has(snippet, "language") /\ snippet.language = sel.language)
    /\ sel.framework # "" => (Has(snippet, "framework") /\ snippet.framework = sel.framework)
    /\ sel.tag # "" => (Has(snippet, "tags") /\ ArrayContains(snippet.tags, sel.tag))

\* C27 as stated: whenever the filterable list view is not loading, every
\* displayed snippet satisfies the selected language, framework and tag.
C27_ShownMatchSelection ==
    (listing.mounted /\ listing.page = "SnippetListings" /\ ~listing.loading)
        => \A k \in 1..Len(listing.snippets) : Matches(listing.snippets[k], listing.selected)

\* C29 as stated: while an explanation request for a snippet is in flight its
\* button is disabled (loadingExplanation is its id) and it is the only request
\* for that snippet; and a failed request leaves the snippets and the stored
\* explanations unchanged.
C29_ExplainOncePerSnippet ==
    /\ [](listing.mounted =>
             \A id \in ListIds :
                 listing.inflight[id] > 0 =>
                     (listing.loadingExplanation = <<id>> /\ listing.inflight[id] = 1))
    /\ [][\A id \in ListIds :
             ExplainFails(id) =>
                 (/\ listing'.snippets = listing.snippets
                  /\ listing'.explanations = listing.explanations)]_vars

----------------------------------------------------------------------------
(* useUserSession: the "__session" cookie kept after the auth provider's   *)
(* user, and the server's reading of it                                    *)

\* the Header is mounted by a page rendered for nobody, nobody is signed in, no
\* cookie; the cookie is kept as nothing or the uid its token is of; callbacks
\* holds the invocations of the listener that have not returned
NewSession ==
    [mounted |-> TRUE, phase |-> "live", initialUser |-> Null, current |-> Null,
     cookie |-> <<>>, callbacks |-> <<>>]

\* the listener up to its first await: for a user, getIdToken() is called; for
\* null, deleteCookie("__session") has run
Invoke(ss, u) ==
    IF u \in Uids
    THEN [ss EXCEPT !.callbacks = Append(@, [user |-> u, pc |-> "getIdToken"])]
    ELSE [ss EXCEPT !.cookie = <<>>,
                    !.callbacks = Append(@, [user |-> u, pc |-> "compare"])]

\* sign-in, sign-out or a refreshed token: the provider has the user and calls
\* the listener of onIdTokenChanged
IdTokenChanged(u) ==
    /\ session.mounted /\ session.phase = "live"
    /\ u = session.current => u \in Uids
    /\ Len(session.callbacks) < MaxCallbacks
    /\ session' = Invoke([session EXCEPT !.current = u], u)
    /\ UNCHANGED <<formVars, liveVars, pageVars, adding, detail, listVars>>

Without(seq, k) == [j \in 1..(Len(seq) - 1) |-> IF j < k THEN seq[j] ELSE seq[j + 1]]

\* await user.getIdToken() resolves: setCookie("__session", idToken)
TokenResolves(k) ==
    /\ session.mounted /\ k \in 1..Len(session.callbacks)
    /\ session.callbacks[k].pc = "getIdToken"
    /\ session' = [session EXCEPT !.cookie = <<session.callbacks[k].user>>,
                                  !.callbacks[k].pc = "compare"]
    /\ UNCHANGED <<formVars, liveVars, pageVars, adding, detail, listVars>>

\* after the cookie call: return when the user is the one the page was rendered
\* for, else window.location.reload(), which ends every callback of the page
Compare(k) ==
    /\ session.mounted /\ k \in 1..Len(session.callbacks)
    /\ session.callbacks[k].pc = "compare"
    /\ session' =
          IF session.initialUser = session.callbacks[k].user
          THEN [session EXCEPT !.callbacks = Without(@, k)]
          ELSE [session EXCEPT !.callbacks = <<>>, !.phase = "reloading"]
    /\ UNCHANGED <<formVars, liveVars, pageVars, adding, detail, listVars>>

\* getAuthenticatedAppForUser on the server: currentUser is the user of the
\* token in the cookie, null without a cookie; the page is rendered for it
ServerRenders ==
    /\ session.mounted /\ session.phase = "reloading"
    /\ session' = [session EXCEPT
                      !.initialUser = IF session.cookie = <<>> THEN Null
                                      ELSE session.cookie[1],
                      !.phase = "rendered"]
    /\ UNCHANGED <<formVars, liveVars, pageVars, adding, detail, listVars>>

\* the Header mounts: the effect registers the listener, which is called with
\* the provider's user
HeaderMounts ==
    /\ session.mounted /\ session.phase = "rendered"
    /\ session' = Invoke([session EXCEPT !.phase = "live"], session.current)
    /\ UNCHANGED <<formVars, liveVars, pageVars, adding, detail, listVars>>

InitSession ==
    /\ RepoIdle /\ FormsIdle /\ LiveIdle /\ PagesIdle
    /\ adding = NoForm /\ detail = NoView
    /\ listing = NoView /\ listeners = <<>>
    /\ session = NewSession

NextSession ==
    \/ \E u \in {Null} \cup Uids : IdTokenChanged(u) /\ RepoAtRest
    \/ \E k \in 1..MaxCallbacks : TokenResolves(k) /\ RepoAtRest
    \/ \E k \in 1..MaxCallbacks : Compare(k) /\ RepoAtRest
    \/ ServerRenders /\ RepoAtRest
    \/ HeaderMounts /\ RepoAtRest

SpecSession == InitSession /\ [][NextSession]_vars

\* C28 as stated: whenever no callback of the listener is in progress, the
\* cookie is present exactly when the provider's current user is not null.
C28_CookieFollowsUser ==
    (session.mounted /\ session.callbacks = <<>>)
        => (session.cookie # <<>> <=> session.current # Null)

====
